---- MODULE Spec2Model ----
(***************************************************************************)
(* A model of the vrp solver core: the solution population                 *)
(* (core/src/refinement/mod.rs), the cost-variation termination criterion  *)
(* (vrp-core/src/solver/termination/cost_variation.rs) and the timing      *)
(* constraint module (src/construction/constraints/timing.rs); and of what *)
(* surrounds it: the objective and the routing matrices                    *)
(* (vrp-core/src/models/problem/costs.rs), the composite recreate          *)
(* (core/src/refinement/recreate/mod.rs), the Solomon solution writer      *)
(* (src/streams/output/text/solomon.rs), the command line interface        *)
(* (cli/src/main.rs) and the vehicle validation                            *)
(* (vrp-pragmatic/src/validation/vehicles.rs).  Each component has its own *)
(* variables and its own specification; the others stay idle in it.        *)
(*                                                                         *)
(* Timestamps, durations and costs are f64 in the source; the model uses   *)
(* small non-negative integers, on which f64 arithmetic is exact.          *)
(***************************************************************************)
EXTENDS Integers, Sequences, FiniteSets, TLC

VARIABLES
    \* Population (core/src/refinement/mod.rs)
    less_costs,         \* Vec<Individuum>
    less_unassigned,    \* Vec<Individuum>
    less_routes,        \* Vec<Individuum>
    minimize_routes,    \* bool
    batch_size,         \* usize
    added,              \* history: every individual ever passed to add
    lastAdd,            \* history: what the last add saw and was given
    \* CostVariation and RefinementContext
    generation,         \* RefinementContext.generation
    state_costs,        \* RefinementContext.state["coeff_var"], <<>> if absent
    sample,             \* CostVariation.sample
    threshold,          \* CostVariation.threshold, a ratio num / den
    cv_result,          \* what the last is_termination call returned
    cv_pc,              \* position of the refinement loop
    cv_history,         \* history: population.best() fitness at each call
    cv_written,         \* history: ring-buffer indices written so far
    \* RouteContext seen by the timing module
    actor,              \* route.actor.detail: start, end, time
    tour,               \* route.tour: the activities with their schedules
    route_state,        \* ctx.state: LATEST_ARRIVAL and WAITING per activity
    route_pc,           \* "ready", "evaluated", "inserted", "panicked"
    evaluation,         \* the last evaluate_activity call and what it returned
    insertion,          \* history: the last insertion applied to the tour
    \* ObjectiveCost comparing solutions
    obj_solutions,      \* the solutions a, b, c handed to total_order
    obj_orders,         \* what total_order returned for (a,b), (b,a), (b,c), (a,c)
    \* CompositeRecreate (core/src/refinement/recreate/mod.rs)
    registered,         \* the Vec<(Box<dyn Recreate>, usize)> passed to new
    recreates,          \* CompositeRecreate.recreates
    weights,            \* CompositeRecreate.weights
    rec_generation,     \* refinement_ctx.generation
    rec_pc,             \* "recreate" or "accept": position of the refinement loop
    rec_runs,           \* history: generation, strategy run and RNG draws of each run
    \* write_solomon_solution (src/streams/output/text/solomon.rs)
    solution,           \* the Solution handed to the writer: routes, unassigned
    writer,             \* what the BufWriter has been given so far, as tokens
    write_result,       \* "none" before the call, then "Ok" or "Err"
    \* The command line interface (cli/src/main.rs)
    cli_env,            \* what main meets: files, argument values, reader, solver, writer
    cli_pc,             \* the statement of main that runs next, or "exited"
    exit_code,          \* the exit code of the process, NoExit while it runs
    cli_out,            \* what main has printed to stdout and stderr
    cli_failed,         \* history: the error main ran into, "none" if none
    \* create_matrix_transport_cost (vrp-core/src/models/problem/costs.rs)
    matrix_costs,       \* the Vec<MatrixData> handed to the function
    matrix_result,      \* "none" before the call, then "Ok" or the Err message
    \* validate_vehicles (vrp-pragmatic/src/validation/vehicles.rs)
    fleet_vehicles,     \* ctx.vehicles(): the vehicle types of the fleet
    validation_result,  \* "none" before the call, then Ok or Err(errors)
    \* TimingConstraintModule::accept_solution_state (src/construction/constraints/timing.rs)
    ctx_required,       \* ctx.required: the number of jobs not assigned yet
    ctx_routes,         \* ctx.routes: the route contexts of the solution
    ctx_before,         \* history: required, routes and the route asked for at the call
    ctx_pc,             \* "ready", then the call made: "accepted" or "rescheduled"
    ctx_panicked        \* the call aborted with OP_START_MSG

popVars == <<less_costs, less_unassigned, less_routes, minimize_routes,
             batch_size, added, lastAdd>>

cvVars == <<generation, state_costs, sample, threshold, cv_result, cv_pc,
            cv_history, cv_written>>

routeVars == <<actor, tour, route_state, route_pc, evaluation, insertion>>

objVars == <<obj_solutions, obj_orders>>

recreateVars == <<registered, recreates, weights, rec_generation, rec_pc, rec_runs>>

solomonVars == <<solution, writer, write_result>>

cliVars == <<cli_env, cli_pc, exit_code, cli_out, cli_failed>>

matrixVars == <<matrix_costs, matrix_result>>

validationVars == <<fleet_vehicles, validation_result>>

solutionVars == <<ctx_required, ctx_routes, ctx_before, ctx_pc, ctx_panicked>>

vars == <<popVars, cvVars, routeVars, objVars, recreateVars, solomonVars,
          cliVars, matrixVars, validationVars, solutionVars>>

\* What the operations of one component leave alone: the other components.
exceptPop == <<cvVars, routeVars, objVars, recreateVars, solomonVars,
               cliVars, matrixVars, validationVars, solutionVars>>

exceptCv == <<popVars, routeVars, objVars, recreateVars, solomonVars,
              cliVars, matrixVars, validationVars, solutionVars>>

exceptRoute == <<popVars, cvVars, objVars, recreateVars, solomonVars,
                 cliVars, matrixVars, validationVars, solutionVars>>

exceptObj == <<popVars, cvVars, routeVars, recreateVars, solomonVars,
               cliVars, matrixVars, validationVars, solutionVars>>

exceptRecreate == <<popVars, cvVars, routeVars, objVars, solomonVars,
                    cliVars, matrixVars, validationVars, solutionVars>>

exceptSolomon == <<popVars, cvVars, routeVars, objVars, recreateVars,
                   cliVars, matrixVars, validationVars, solutionVars>>

exceptCli == <<popVars, cvVars, routeVars, objVars, recreateVars,
               solomonVars, matrixVars, validationVars, solutionVars>>

exceptMatrix == <<popVars, cvVars, routeVars, objVars, recreateVars,
                  solomonVars, cliVars, validationVars, solutionVars>>

exceptValidation == <<popVars, cvVars, routeVars, objVars, recreateVars,
                      solomonVars, cliVars, matrixVars, solutionVars>>

exceptSolution == <<popVars, cvVars, routeVars, objVars, recreateVars,
                    solomonVars, cliVars, matrixVars, validationVars>>

----------------------------------------------------------------------------
(* Bounds                                                                  *)

MaxBatch == 3
MaxAdds == 4
MaxCost == 2
MaxSample == 3
MaxGeneration == 5
MaxFitness == 2
MaxJobs == 2
MaxLoc == 2
MaxUnassigned == 1
MaxRoutes == 2
MaxTotalCost == 3
MaxRuns == 3
MaxCustomers == 2
MaxSolutionRoutes == 2
MaxMatrices == 2
MaxEntries == 5
MaxVehicleTypes == 2
MaxStops == 1
MaxRequired == 1

----------------------------------------------------------------------------
(* Generic helpers                                                         *)

Max2(a, b) == IF a >= b THEN a ELSE b

Min2(a, b) == IF a <= b THEN a ELSE b

\* Vec::truncate(len): keeps the first len elements, no effect if shorter.
Truncate(s, len) == IF Len(s) <= len THEN s ELSE SubSeq(s, 1, len)

----------------------------------------------------------------------------
(* Population                                                              *)

\* An Individuum (InsertionContext, ObjectiveCost, usize) is represented by
\* what the comparators read: cost.total(), solution.unassigned.len(),
\* solution.routes.len(), and the generation it was discovered in.
Individuums ==
    [cost : 1..MaxCost, unassigned : {0, 1}, routes : {1, 2}, gen : 1..MaxAdds]

\* compare_floats(a, b) on non-NaN values.
compare_floats(a, b) ==
    IF a < b THEN "Less" ELSE IF a > b THEN "Greater" ELSE "Equal"

\* usize::cmp
cmp_usize(a, b) ==
    IF a < b THEN "Less" ELSE IF a > b THEN "Greater" ELSE "Equal"

\* The three closures passed to add_to_queue by Population::add.
compare_costs(a, b) == compare_floats(a.cost, b.cost)

compare_unassigned(a, b) ==
    LET value == cmp_usize(a.unassigned, b.unassigned)
    IN  IF value = "Equal" THEN compare_floats(a.cost, b.cost) ELSE value

compare_routes(a, b) ==
    LET value == cmp_usize(a.routes, b.routes)
    IN  IF value = "Equal" THEN compare_floats(a.cost, b.cost) ELSE value

Axes == {"less_costs", "less_unassigned", "less_routes"}

compare(axis, a, b) ==
    CASE axis = "less_costs" -> compare_costs(a, b)
      [] axis = "less_unassigned" -> compare_unassigned(a, b)
      [] axis = "less_routes" -> compare_routes(a, b)

\* One step of a stable sort: x goes after every element that does not
\* compare Greater than it.
RECURSIVE InsertStable(_, _, _)
InsertStable(axis, sorted, x) ==
    IF sorted = <<>> THEN <<x>>
    ELSE IF compare(axis, Head(sorted), x) = "Greater"
         THEN <<x>> \o sorted
         ELSE <<Head(sorted)>> \o InsertStable(axis, Tail(sorted), x)

\* slice::sort_by: a stable sort under the axis comparator.
RECURSIVE sort_by(_, _)
sort_by(axis, s) ==
    IF s = <<>> THEN <<>>
    ELSE InsertStable(axis, sort_by(axis, SubSeq(s, 1, Len(s) - 1)), s[Len(s)])

\* A faulty variant that never truncates.
add_to_queue_no_truncate(axis, individuum, size, individuums) ==
    sort_by(axis, Append(individuums, individuum))

\* A faulty variant that keeps the tail of the queue instead of its front.
add_to_queue_keep_tail(axis, individuum, size, individuums) ==
    sort_by(axis, Append(
        IF Len(individuums) <= size - 1 THEN individuums
        ELSE SubSeq(individuums, Len(individuums) - (size - 1) + 1, Len(individuums)),
        individuum))

\* A faulty variant that puts the newcomer in front of the queue before
\* the stable sort.
add_to_queue_push_front(axis, individuum, size, individuums) ==
    sort_by(axis, <<individuum>> \o Truncate(individuums, size - 1))

\* Population::add_to_queue: truncate(batch_size - 1); push; sort_by.
add_to_queue(axis, individuum, size, individuums) ==
    sort_by(axis, Append(Truncate(individuums, size - 1), individuum))

\* The per-axis batch size Population::add passes to add_to_queue.
axis_limit(axis, minimize, batch) ==
    CASE axis = "less_costs" -> IF minimize THEN 2 ELSE batch
      [] axis = "less_unassigned" -> 1
      [] axis = "less_routes" -> IF minimize THEN batch ELSE 2

\* Population::less_costs() / less_routes(): the chained iterators.
less_costs_iter == less_costs \o less_unassigned \o less_routes

less_routes_iter == less_routes \o less_unassigned \o less_costs

\* Population::all(minimum_routes)
all(minimum_routes) == IF minimum_routes THEN less_routes_iter ELSE less_costs_iter

NoIndividuum == [cost |-> 0, unassigned |-> 0, routes |-> 0, gen |-> 0]

\* Population::best(minimum_routes): first element of all(), None if empty.
best(minimum_routes) ==
    IF all(minimum_routes) = <<>> THEN NoIndividuum ELSE Head(all(minimum_routes))

\* Population::size()
size == Len(less_costs) + Len(less_unassigned) + Len(less_routes)

NoAdd == [individuum |-> NoIndividuum, costs |-> <<>>, unassigned |-> <<>>,
          routes |-> <<>>]

\* Population::new(minimize_routes, batch_size), asserting batch_size > 1.
PopInit ==
    /\ minimize_routes \in BOOLEAN
    /\ batch_size \in 2..MaxBatch
    /\ less_costs = <<>>
    /\ less_unassigned = <<>>
    /\ less_routes = <<>>
    /\ added = {}
    /\ lastAdd = NoAdd

\* Population::add(individuum)
add(individuum) ==
    /\ less_costs' = add_to_queue("less_costs", individuum,
            axis_limit("less_costs", minimize_routes, batch_size), less_costs)
    /\ less_unassigned' = add_to_queue("less_unassigned", individuum,
            axis_limit("less_unassigned", minimize_routes, batch_size), less_unassigned)
    /\ less_routes' = add_to_queue("less_routes", individuum,
            axis_limit("less_routes", minimize_routes, batch_size), less_routes)
    /\ added' = added \cup {individuum}
    /\ lastAdd' = [individuum |-> individuum, costs |-> less_costs,
                   unassigned |-> less_unassigned, routes |-> less_routes]
    /\ UNCHANGED <<minimize_routes, batch_size>>

Add ==
    /\ Cardinality(added) < MaxAdds
    /\ \E individuum \in Individuums :
          /\ individuum.gen = Cardinality(added) + 1
          /\ add(individuum)
    /\ UNCHANGED exceptPop

PopNext == Add

\* The current / previous contents of an axis.
axis_now(axis) ==
    CASE axis = "less_costs" -> less_costs
      [] axis = "less_unassigned" -> less_unassigned
      [] axis = "less_routes" -> less_routes

axis_before(axis) ==
    CASE axis = "less_costs" -> lastAdd.costs
      [] axis = "less_unassigned" -> lastAdd.unassigned
      [] axis = "less_routes" -> lastAdd.routes

\* The elements of a sequence, as a set.
Range(s) == {s[i] : i \in 1..Len(s)}

\* C3 (as claimed): after add on an axis that already held its limit, the
\* axis holds the `limit` best of the previous contents together with the
\* newcomer (insert, then truncate): nothing that was dropped compares
\* strictly better than something that was kept.
C3_InsertThenTruncate ==
    \A axis \in Axes :
        LET limit == axis_limit(axis, minimize_routes, batch_size)
            offered == Range(axis_before(axis)) \cup {lastAdd.individuum}
            kept == Range(axis_now(axis))
        IN  (lastAdd # NoAdd /\ Len(axis_before(axis)) = limit)
            => /\ Len(axis_now(axis)) = limit
               /\ kept \subseteq offered
               /\ \A y \in kept, x \in offered \ kept :
                      compare(axis, y, x) # "Greater"

\* Lexicographic (route count, cost) order of two individuals.
RoutesThenCostLeq(a, b) ==
    \/ a.routes < b.routes
    \/ a.routes = b.routes /\ a.cost <= b.cost

\* C4 (as claimed): the total cost of best(minimum_routes) never increases
\* from one add to the next, for either value of minimum_routes.
C4_BestCostNeverIncreases ==
    [][\A m \in BOOLEAN :
          best(m) # NoIndividuum => best(m)'.cost <= best(m).cost]_vars

\* C4 (amended): the total cost of best(false) never increases; for
\* best(true) the pair (route count, total cost) never increases
\* lexicographically, so its cost cannot increase unless its route count drops.
C4_BestNeverWorse ==
    [][/\ best(FALSE) # NoIndividuum => best(FALSE)'.cost <= best(FALSE).cost
       /\ best(TRUE) # NoIndividuum => RoutesThenCostLeq(best(TRUE)', best(TRUE))]_vars

\* C4 witness: a newcomer with fewer routes and a higher cost than the
\* previous head of less_routes has been added and is now best(true), while
\* best(false) kept the cheaper individual.
C4_Witness ==
    /\ lastAdd.routes # <<>>
    /\ best(TRUE) = lastAdd.individuum
    /\ lastAdd.individuum.cost > Head(lastAdd.routes).cost
    /\ best(FALSE).cost < lastAdd.individuum.cost

\* C5: every axis holds at most batch_size individuals and the population
\* holds at most 3 * batch_size.
C5_AxesBounded ==
    /\ Len(less_costs) <= batch_size
    /\ Len(less_unassigned) <= batch_size
    /\ Len(less_routes) <= batch_size
    /\ size <= 3 * batch_size

\* C5 witness: add has run on a less_costs axis already holding batch_size
\* individuals, and on a less_routes axis already holding its limit.
C5_Witness ==
    /\ Len(lastAdd.costs) = batch_size
    /\ Len(less_costs) = batch_size
    /\ Len(lastAdd.routes) = axis_limit("less_routes", minimize_routes, batch_size)

\* C6 (as claimed): after any add, the head of less_unassigned has the
\* fewest unassigned jobs (ties: lower cost) of all individuals ever added.
C6_HeadFewestUnassigned ==
    added # {} =>
        /\ less_unassigned # <<>>
        /\ \A x \in added : compare_unassigned(Head(less_unassigned), x) # "Greater"

\* The axis is sorted ascending by its comparator.
SortedBy(axis, s) ==
    \A i, j \in 1..Len(s) : i < j => compare(axis, s[i], s[j]) # "Greater"

\* C30: after one or more adds, less_costs and less_routes are sorted
\* ascending by their comparator and their head compares no greater than
\* any individual ever added; a newcomer that ties with the head an axis
\* had leaves that head in place.
C30_HeadIsMinimum ==
    lastAdd # NoAdd =>
        \A axis \in {"less_costs", "less_routes"} :
            /\ axis_now(axis) # <<>>
            /\ SortedBy(axis, axis_now(axis))
            /\ \A x \in added : compare(axis, Head(axis_now(axis)), x) # "Greater"
            /\ (/\ axis_before(axis) # <<>>
                /\ compare(axis, lastAdd.individuum, Head(axis_before(axis))) = "Equal")
                    => Head(axis_now(axis)) = Head(axis_before(axis))

\* C30 witness: both axes were full, so the add truncated them, and the
\* newcomer tied with the head of less_costs and with the head of
\* less_routes; both heads are the ones from before.
C30_Witness ==
    /\ lastAdd # NoAdd
    /\ \A axis \in {"less_costs", "less_routes"} :
          /\ Len(axis_before(axis)) = axis_limit(axis, minimize_routes, batch_size)
          /\ compare(axis, lastAdd.individuum, Head(axis_before(axis))) = "Equal"
          /\ Head(axis_now(axis)) = Head(axis_before(axis))
          /\ Head(axis_now(axis)) # lastAdd.individuum

----------------------------------------------------------------------------
(* CostVariation termination                                               *)

\* Option::None for population.best()
None == -1

\* Thresholds the criterion is built with: 0, 1/10, 1/2 and 2.
Thresholds ==
    {[num |-> 0, den |-> 1], [num |-> 1, den |-> 10], [num |-> 1, den |-> 2],
     [num |-> 2, den |-> 1]}

RECURSIVE SumSeq(_)
SumSeq(s) == IF s = <<>> THEN 0 ELSE Head(s) + SumSeq(Tail(s))

RECURSIVE SumSquares(_)
SumSquares(s) == IF s = <<>> THEN 0 ELSE Head(s) * Head(s) + SumSquares(Tail(s))

\* get_cv(values) = std-dev / mean.  With n = len, S = sum, Q = sum of
\* squares, mean = S / n and variance = (n * Q - S * S) / n^2, so
\* cv^2 = (n * Q - S * S) / S^2; returned as that pair.  A zero mean makes
\* the f64 quotient NaN (flagged nan), which compares false with anything.
get_cv(values) ==
    LET n == Len(values)
        S == SumSeq(values)
        Q == SumSquares(values)
    IN  [sq_num |-> n * Q - S * S, sq_den |-> S * S, nan |-> S = 0]

\* A faulty variant with the comparison reversed.
check_threshold_reversed(values, thr) ==
    LET cv == get_cv(values)
    IN  /\ ~cv.nan
        /\ thr.den * thr.den * cv.sq_num > thr.num * thr.num * cv.sq_den

\* CostVariation::check_threshold: get_cv(costs) < self.threshold
check_threshold(values, thr) ==
    LET cv == get_cv(values)
    IN  /\ ~cv.nan
        /\ thr.den * thr.den * cv.sq_num < thr.num * thr.num * cv.sq_den

\* A faulty variant that allocates the buffer anew at every call.
entry_or_insert_fresh(entry, smp) == [i \in 1..smp |-> 0]

\* state.entry(key).or_insert_with(|| vec![0.; sample])
entry_or_insert(entry, smp) == IF entry = <<>> THEN [i \in 1..smp |-> 0] ELSE entry

\* A faulty variant that evaluates the threshold before recording the cost.
update_and_check_stale(entry, gen, smp, thr, cost) ==
    LET costs == entry_or_insert(entry, smp)
    IN  [costs |-> [costs EXCEPT ![(gen % smp) + 1] = cost],
         result |-> gen >= smp - 1 /\ check_threshold(costs, thr)]

\* CostVariation::update_and_check: the buffer after the write (indices are
\* 1-based here) and the value returned.
update_and_check(entry, gen, smp, thr, cost) ==
    LET costs == [entry_or_insert(entry, smp) EXCEPT ![(gen % smp) + 1] = cost]
    IN  [costs |-> costs,
         result |-> gen >= smp - 1 /\ check_threshold(costs, thr)]

\* RefinementContext::new sets generation 1 and an empty state bag;
\* CostVariation::new(sample, threshold).
CvInit ==
    /\ generation = 1
    /\ state_costs = <<>>
    /\ sample \in 1..MaxSample
    /\ threshold \in Thresholds
    /\ cv_result = FALSE
    /\ cv_pc = "consult"
    /\ cv_history = <<>>
    /\ cv_written = {}

\* A faulty variant that creates the buffer before it looks for a best
\* individual.
is_termination_creates_entry(best_fitness) ==
    IF best_fitness # None
    THEN LET r == update_and_check(state_costs, generation, sample, threshold,
                                   best_fitness)
         IN  /\ state_costs' = r.costs
             /\ cv_result' = r.result
             /\ cv_written' = cv_written \cup {generation % sample}
    ELSE /\ cv_result' = FALSE
         /\ state_costs' = entry_or_insert(state_costs, sample)
         /\ UNCHANGED cv_written

\* CostVariation::is_termination with population.best() = best_fitness.
is_termination(best_fitness) ==
    IF best_fitness # None
    THEN LET r == update_and_check(state_costs, generation, sample, threshold,
                                   best_fitness)
         IN  /\ state_costs' = r.costs
             /\ cv_result' = r.result
             /\ cv_written' = cv_written \cup {generation % sample}
    ELSE /\ cv_result' = FALSE
         /\ UNCHANGED <<state_costs, cv_written>>

\* The refinement loop consults the criterion once per generation.
IsTermination ==
    /\ cv_pc = "consult"
    /\ \E f \in {None} \cup 0..MaxFitness :
          /\ is_termination(f)
          /\ cv_history' = Append(cv_history, f)
    /\ cv_pc' = "advance"
    /\ UNCHANGED <<generation, sample, threshold>>
    /\ UNCHANGED exceptCv

\* The refinement loop moves to the next generation unless termination fired.
NextGeneration ==
    /\ cv_pc = "advance"
    /\ ~cv_result
    /\ generation < MaxGeneration
    /\ generation' = generation + 1
    /\ cv_pc' = "consult"
    /\ UNCHANGED <<state_costs, sample, threshold, cv_result, cv_history,
                   cv_written>>
    /\ UNCHANGED exceptCv

CvNext == IsTermination \/ NextGeneration

\* The fitness handed to the last is_termination call.
LastFitness == cv_history[Len(cv_history)]

\* The last call had a best individual, so update_and_check ran.
Checked == cv_pc = "advance" /\ LastFitness # None

C8_BufferFullWhenChecked ==
    (Checked /\ generation >= sample - 1) => cv_written = 0..(sample - 1)

\* The fitness was f at every call from generation g0 on.
PlateauFrom(g0, f) ==
    /\ g0 <= Len(cv_history)
    /\ \A g \in g0..Len(cv_history) : cv_history[g] = f

IsTerminationCall == cv_pc = "consult" /\ cv_pc' = "advance"

\* C28: a call of is_termination with a best individual leaves a buffer of
\* length sample that holds the fitness in slot generation mod sample and
\* in every other slot what it held before (0 where the buffer did not
\* exist yet), whether or not generation < sample - 1; the generation
\* counter and the population are as before.
C28_WritesOneSlot ==
    [][(IsTerminationCall /\ cv_history'[Len(cv_history')] # None) =>
          /\ Len(state_costs') = sample
          /\ state_costs'[(generation % sample) + 1] = cv_history'[Len(cv_history')]
          /\ \A i \in 1..sample :
                i # (generation % sample) + 1 =>
                    state_costs'[i] = (IF state_costs = <<>> THEN 0 ELSE state_costs[i])
          /\ generation' = generation
          /\ sample' = sample
          /\ UNCHANGED popVars]_vars

\* C28 witness: two calls have written two slots, the second one before
\* the buffer could be full (generation < sample - 1 at the first), and
\* the slot of the first call still holds its fitness.
C28_Witness ==
    /\ Checked
    /\ sample >= 3
    /\ generation = 2
    /\ cv_history[1] \notin {None, 0, LastFitness}
    /\ state_costs[2] = cv_history[1]
    /\ state_costs[3] = LastFitness

\* C29: a call of is_termination without a best individual returns false
\* and leaves the buffer as it was, not created if it did not exist, and
\* the generation counter unchanged.
C29_NoBestNoChange ==
    [][(IsTerminationCall /\ cv_history'[Len(cv_history')] = None) =>
          /\ cv_result' = FALSE
          /\ state_costs' = state_costs
          /\ generation' = generation
          /\ UNCHANGED popVars]_vars

\* C29 witness: a call without a best individual was made when no buffer
\* existed, and there is none after it.
C29_Witness ==
    /\ cv_pc = "advance"
    /\ LastFitness = None
    /\ state_costs = <<>>
    /\ ~cv_result

----------------------------------------------------------------------------
(* Timing constraint module                                                *)

\* Option::None for an optional location / activity.
NoLoc == -1

NoActivity == [id |-> -1]

\* Per-unit costs of the vehicle and the driver (Costs of the actor).
VehicleCosts ==
    [per_distance |-> 1, per_driving_time |-> 1, per_waiting_time |-> 1,
     per_service_time |-> 1]

DriverCosts ==
    [per_distance |-> 0, per_driving_time |-> 0, per_waiting_time |-> 0,
     per_service_time |-> 0]

\* Matrix routing data: locations lie on a line, one unit apart.
MatrixSize == MaxLoc + 1

MatrixDurations ==
    [i \in 0..(MatrixSize * MatrixSize - 1) |->
        LET from == i \div MatrixSize
            to == i % MatrixSize
        IN  IF from >= to THEN from - to ELSE to - from]

MatrixDistances == MatrixDurations

\* TimeAgnosticMatrixTransportCost::duration / distance
transport_duration(from, to, departure) == MatrixDurations[from * MatrixSize + to]

transport_distance(from, to, departure) == MatrixDistances[from * MatrixSize + to]

\* TransportCost::cost
transport_cost(from, to, departure) ==
    transport_distance(from, to, departure)
        * (DriverCosts.per_distance + VehicleCosts.per_distance)
    + transport_duration(from, to, departure)
        * (DriverCosts.per_driving_time + VehicleCosts.per_driving_time)

\* ActivityCost::duration
activity_duration(activity, arrival) == activity.dur

\* ActivityCost::cost
activity_cost(activity, arrival) ==
    LET waiting == IF activity.tws > arrival THEN activity.tws - arrival ELSE 0
        service == activity_duration(activity, arrival)
    IN  waiting * (DriverCosts.per_waiting_time + VehicleCosts.per_waiting_time)
        + service * (DriverCosts.per_service_time + VehicleCosts.per_service_time)

\* accept_route_state, first fold (lines 36-50): the schedule of every
\* activity after the start, from position i on, given the location and
\* departure of the activity before it.
RECURSIVE schedule_fold(_, _, _, _)
schedule_fold(t, i, loc, dep) ==
    IF i > Len(t) THEN t
    ELSE LET a == t[i]
             arrival == dep + transport_duration(loc, a.loc, dep)
             departure == Max2(arrival, a.tws) + activity_duration(a, arrival)
         IN  schedule_fold([t EXCEPT ![i].arr = arrival, ![i].dep = departure],
                           i + 1, a.loc, departure)

update_schedules(t) == schedule_fold(t, 2, t[1].loc, t[1].dep)

NoRouteState == [latest |-> <<>>, waiting |-> <<>>]

\* RouteState::put_activity_state(key, activity, value)
put_activity_state(st, id, value) ==
    [x \in DOMAIN st \cup {id} |-> IF x = id THEN value ELSE st[x]]

\* accept_route_state, second fold (lines 58-75): activities i, i-1, .. 1
\* visited with accumulator (end_time, prev_loc, waiting).
RECURSIVE state_fold(_, _, _, _, _, _)
state_fold(t, i, end_time, prev_loc, waiting, st) ==
    IF i < 1 THEN st
    ELSE LET act == t[i]
         IN  IF ~act.job THEN state_fold(t, i - 1, end_time, prev_loc, waiting, st)
             ELSE LET potential_latest ==
                          end_time - transport_duration(act.loc, prev_loc, end_time)
                                   - activity_duration(act, end_time)
                      latest_arrival_time == Min2(act.twe, potential_latest)
                      future_waiting == waiting + Max2(act.tws - act.arr, 0)
                  IN  state_fold(t, i - 1, latest_arrival_time, act.loc, future_waiting,
                          [latest |-> put_activity_state(st.latest, act.id, latest_arrival_time),
                           waiting |-> put_activity_state(st.waiting, act.id, future_waiting)])

update_states(t, act, st) ==
    state_fold(t, Len(t), act.time.end,
               IF act.end # NoLoc THEN act.end ELSE act.start, 0, st)

\* TimingConstraintModule::accept_route_state.  Both defaults are written
\* unwrap_or(panic!(OP_START_MSG)): the argument of unwrap_or is evaluated
\* before the call, so the panic at line 32 is raised for every route and
\* neither fold is reached.
accept_route_state(t, act, st) ==
    LET start_default_panics == TRUE
    IN  IF start_default_panics
        THEN [panicked |-> TRUE, tour |-> t, state |-> st]
        ELSE [panicked |-> FALSE, tour |-> update_schedules(t),
              state |-> update_states(update_schedules(t), act, st)]

\* state.get_activity_state(LATEST_ARRIVAL_KEY, a).unwrap_or(&a.place.time.end)
latest_arrival_or(st, a) == IF a.id \in DOMAIN st.latest THEN st.latest[a.id] ELSE a.twe

\* state.get_activity_state(WAITING_KEY, a).unwrap_or(&0.0)
waiting_or(st, a) == IF a.id \in DOMAIN st.waiting THEN st.waiting[a.id] ELSE 0

\* ActivityConstraintViolation { stopped: true } is returned by fail(),
\* { stopped: false } by stop(), None by success().
Fail == "stopped=true"

\* stop() written like fail(): every violation abandons the route.
stop_abandons_route == "stopped=true"

Stop == "stopped=false"

Success == "None"

\* TimeHardActivityConstraint::evaluate_activity
evaluate_activity(act, st, prev, target, next) ==
    LET departure == prev.dep
        has_next == next # NoActivity
    IN  IF \/ act.time.end < prev.tws
           \/ act.time.end < target.tws
           \/ (has_next /\ act.time.end < next.tws)
        THEN Fail
        ELSE
        LET next_act_location == IF has_next THEN next.loc ELSE target.loc
            latest_arr_time_at_next_act ==
                IF has_next THEN latest_arrival_or(st, next)
                ELSE Min2(target.twe, act.time.end)
            arr_time_at_next ==
                departure + transport_duration(prev.loc, next_act_location, departure)
        IN  IF arr_time_at_next > latest_arr_time_at_next_act THEN Fail
            ELSE IF target.tws > latest_arr_time_at_next_act THEN Stop
            ELSE
            LET arr_time_at_target_act ==
                    departure + transport_duration(prev.loc, target.loc, departure)
                end_time_at_new_act ==
                    Max2(arr_time_at_target_act, target.tws)
                        + activity_duration(target, arr_time_at_target_act)
                latest_arr_time_at_new_act ==
                    Min2(target.twe,
                         latest_arr_time_at_next_act
                            - transport_duration(target.loc, next_act_location,
                                                 latest_arr_time_at_next_act)
                            + activity_duration(target, arr_time_at_target_act))
            IN  IF arr_time_at_target_act > latest_arr_time_at_new_act THEN Stop
                ELSE IF has_next THEN Success
                ELSE
                LET arr_time_at_next_act ==
                        end_time_at_new_act
                            + transport_duration(target.loc, next_act_location,
                                                 end_time_at_new_act)
                IN  IF arr_time_at_next_act > latest_arr_time_at_next_act
                    THEN Stop ELSE Success

\* TimeSoftActivityConstraint::analyze_route_leg
analyze_route_leg(start, end, time) ==
    LET arrival == time + transport_duration(start.loc, end.loc, time)
        departure == Max2(arrival, end.tws) + activity_duration(end, arrival)
    IN  [transport_cost |-> transport_cost(start.loc, end.loc, time),
         activity_cost |-> activity_cost(end, arrival),
         departure |-> departure]

\* Tour::has_jobs
has_jobs(t) == \E i \in 1..Len(t) : t[i].job

\* TimeSoftActivityConstraint::estimate_activity
estimate_activity(t, st, prev, target, next) ==
    LET left == analyze_route_leg(prev, target, prev.dep)
        right == IF next # NoActivity
                 THEN analyze_route_leg(target, next, left.departure)
                 ELSE analyze_route_leg(target, target, left.departure)
        new_costs == left.transport_cost + right.transport_cost
                        + (left.activity_cost + right.activity_cost)
    IN  IF ~has_jobs(t) \/ next = NoActivity THEN new_costs
        ELSE LET waiting_time == waiting_or(st, next)
                 old == analyze_route_leg(prev, next, prev.dep)
                 waiting_cost ==
                     Min2(waiting_time, Max2(0, right.departure - old.departure))
                        * VehicleCosts.per_waiting_time
                 old_costs == old.transport_cost + (old.activity_cost + waiting_cost)
             IN  new_costs - old_costs

\* The places a job activity can be created from.
JobPlaces == [loc : 1..MaxLoc, tws : {0, 3}, twe : {4, 8}, dur : {0, 2}]

\* A job activity as it is created: its schedule is not computed yet.
new_activity(id, place) ==
    [id |-> id, job |-> TRUE, loc |-> place.loc, tws |-> place.tws,
     twe |-> place.twe, dur |-> place.dur, arr |-> 0, dep |-> 0]

\* The shift-start and shift-end activities of an actor.
start_activity(act) ==
    [id |-> 0, job |-> FALSE, loc |-> act.start, tws |-> act.time.start,
     twe |-> act.time.end, dur |-> 0, arr |-> act.time.start, dep |-> act.time.start]

end_activity(act) ==
    [id |-> MaxJobs + 2, job |-> FALSE, loc |-> act.end, tws |-> 0,
     twe |-> act.time.end, dur |-> 0, arr |-> act.time.end, dep |-> act.time.end]

Actors ==
    [start : {0}, end : {NoLoc, 0}, time : [start : {0}, end : {2, 8, 12}]]

\* A tour of the actor through the given job places, schedules not computed.
raw_tour(act, places) ==
    <<start_activity(act)>>
        \o [i \in 1..Len(places) |-> new_activity(i, places[i])]
        \o (IF act.end # NoLoc THEN <<end_activity(act)>> ELSE <<>>)

PlaceSeqs == UNION {[1..n -> JobPlaces] : n \in 0..MaxJobs}

NoInsertion == [index |-> 0, estimate |-> 0, cost_before |-> 0, accept_called |-> FALSE]

NoEvaluation == [index |-> 0, target |-> NoActivity, result |-> Success]

\* The total cost of a route as its schedule stands: transport cost of every
\* leg plus activity cost (waiting and service) of every activity.
RECURSIVE route_cost_from(_, _)
route_cost_from(t, i) ==
    IF i > Len(t) THEN 0
    ELSE transport_cost(t[i - 1].loc, t[i].loc, t[i - 1].dep)
            + activity_cost(t[i], t[i].arr)
            + route_cost_from(t, i + 1)

route_cost(t) == route_cost_from(t, 2)

\* The schedule obeys the recurrences of the first fold.
ScheduleConsistent(t) ==
    \A i \in 2..Len(t) :
        /\ t[i].arr = t[i - 1].dep
                        + transport_duration(t[i - 1].loc, t[i].loc, t[i - 1].dep)
        /\ t[i].dep = Max2(t[i].arr, t[i].tws) + t[i].dur

\* No time constraint is violated: every job activity arrives within its
\* time window and no later than its stored LATEST_ARRIVAL, and the
\* shift-end activity is reached by the end of the shift.
NoTimeViolation(t, st, act) ==
    \A i \in 2..Len(t) :
        IF t[i].job
        THEN /\ t[i].arr <= t[i].twe
             /\ t[i].id \in DOMAIN st.latest
             /\ t[i].arr <= st.latest[t[i].id]
        ELSE t[i].arr <= act.time.end

\* A route context handed to the timing module: an actor with a start, a
\* tour through some jobs, and the schedules and state that the two folds
\* of accept_route_state assign to that tour; the tour violates no time
\* constraint.
RouteInit ==
    /\ actor \in Actors
    /\ \E places \in PlaceSeqs :
          /\ tour = update_schedules(raw_tour(actor, places))
          /\ route_state = update_states(tour, actor, NoRouteState)
    /\ NoTimeViolation(tour, route_state, actor)
    /\ route_pc = "ready"
    /\ evaluation = NoEvaluation
    /\ insertion = NoInsertion

\* Tour::insert_at(activity, index), index counted from 0
insert_at(t, activity, index) ==
    SubSeq(t, 1, index) \o <<activity>> \o SubSeq(t, index + 1, Len(t))

\* tour.get(index), None past the end
tour_get(t, index) == IF index + 1 <= Len(t) THEN t[index + 1] ELSE NoActivity

\* The positions a job can be inserted at: after the start and before the
\* shift end, or at the very end of an open tour.
InsertionIndices(t, act) ==
    1..(IF act.end # NoLoc THEN Len(t) - 1 ELSE Len(t))

\* The hard constraint is asked about target at one position of the tour:
\* evaluate_activity(route_ctx, ActivityContext { index, prev, target, next }).
evaluate_at(t, act, st, target, index) ==
    evaluate_activity(act, st, tour_get(t, index - 1), target, tour_get(t, index))

\* The insertion evaluator asks the hard constraint about one position.
EvaluateActivity ==
    /\ route_pc = "ready"
    /\ \E place \in JobPlaces, index \in InsertionIndices(tour, actor) :
          LET target == new_activity(MaxJobs + 1, place)
          IN  evaluation' =
                  [index |-> index, target |-> target,
                   result |-> evaluate_at(tour, actor, route_state, target, index)]
    /\ route_pc' = "evaluated"
    /\ UNCHANGED <<actor, tour, route_state, insertion>>
    /\ UNCHANGED exceptRoute

\* The insertion evaluator applies an insertion the hard constraint let
\* through: target goes between prev = tour[index - 1] and next = tour[index].
InsertActivity ==
    /\ route_pc = "ready"
    /\ \E place \in JobPlaces, index \in InsertionIndices(tour, actor) :
          LET target == new_activity(MaxJobs + 1, place)
              prev == tour_get(tour, index - 1)
              next == tour_get(tour, index)
          IN  /\ evaluate_activity(actor, route_state, prev, target, next) = Success
              /\ tour' = insert_at(tour, target, index)
              /\ insertion' =
                    [index |-> index,
                     estimate |-> estimate_activity(tour, route_state, prev, target, next),
                     cost_before |-> route_cost(tour),
                     accept_called |-> FALSE]
    /\ route_pc' = "inserted"
    /\ UNCHANGED <<actor, route_state, evaluation>>
    /\ UNCHANGED exceptRoute

\* accept_route_state is called on the route that was just changed.
AcceptRouteState ==
    /\ route_pc = "inserted"
    /\ LET r == accept_route_state(tour, actor, route_state)
       IN  /\ tour' = r.tour
           /\ route_state' = r.state
           /\ route_pc' = IF r.panicked THEN "panicked" ELSE "ready"
    /\ insertion' = [insertion EXCEPT !.accept_called = TRUE]
    /\ UNCHANGED <<actor, evaluation>>
    /\ UNCHANGED exceptRoute

RouteNext == EvaluateActivity \/ InsertActivity \/ AcceptRouteState

\* The schedule and state the two folds of accept_route_state assign to
\* the tour as it stands.
Recomputed ==
    LET t == update_schedules(tour)
    IN  [tour |-> t, state |-> update_states(t, actor, route_state)]

\* C1 (as claimed): once an insertion that evaluate_activity let through
\* has been applied to a route whose timing state was current, the schedule
\* and state that accept_route_state recomputes violate no time constraint.
C1_AcceptedInsertionFeasible ==
    route_pc = "inserted" =>
        NoTimeViolation(Recomputed.tour, Recomputed.state, actor)

\* C2 (as claimed): after accept_route_state every activity after the start
\* has arrival = previous departure + travel duration and
\* departure = max(arrival, tw.start) + service duration, so the schedule
\* is monotonic.
C2_ScheduleRecomputed ==
    insertion.accept_called =>
        /\ ScheduleConsistent(tour)
        /\ \A i \in 2..Len(tour) :
              /\ tour[i].arr <= tour[i].dep
              /\ tour[i - 1].dep <= tour[i].arr

\* C10 (as claimed): the soft estimate of an insertion equals the change of
\* the route's total cost between the route before the insertion and the
\* route with the insertion applied and its schedule recomputed by
\* accept_route_state.
C10_EstimateIsCostDelta ==
    route_pc = "inserted" =>
        insertion.estimate = route_cost(Recomputed.tour) - insertion.cost_before

\* C11 (as claimed): a call of accept_route_state returns, and a second
\* call right after it leaves every arrival and departure and the
\* LATEST_ARRIVAL and WAITING state as the first call left them.
C11_AcceptIdempotent ==
    insertion.accept_called =>
        /\ route_pc # "panicked"
        /\ LET again == accept_route_state(tour, actor, route_state)
           IN  /\ ~again.panicked
               /\ again.tour = tour
               /\ again.state = route_state

evaluation_prev == tour_get(tour, evaluation.index - 1)

evaluation_next == tour_get(tour, evaluation.index)

\* C21 (as claimed): when next is present and evaluate_activity returns no
\* violation, the service completion at target, max(arrival at target,
\* target.tw.start) + service duration, plus the travel from target to next
\* is at most LATEST_ARRIVAL(next), or next.tw.end when no state is stored.
C21_CompletionRespectsLatestArrival ==
    (/\ route_pc = "evaluated"
     /\ evaluation.result = Success
     /\ evaluation_next # NoActivity) =>
        LET prev == evaluation_prev
            target == evaluation.target
            next == evaluation_next
            arrival == prev.dep + transport_duration(prev.loc, target.loc, prev.dep)
            completion == Max2(arrival, target.tws) + activity_duration(target, arrival)
        IN  completion + transport_duration(target.loc, next.loc, completion)
                <= latest_arrival_or(route_state, next)

\* The position of the first job activity after position i, 0 when none.
following_job(t, i) ==
    LET later == {k \in (i + 1)..Len(t) : t[k].job}
    IN  IF later = {} THEN 0 ELSE CHOOSE k \in later : \A l \in later : k <= l

\* C22 (as claimed): after accept_route_state every job activity a has
\* LATEST_ARRIVAL(a) = min(a.tw.end, T - travel_duration(a.loc -> L, T)
\* - service duration) and WAITING(a) = accumulated waiting
\* + max(0, a.tw.start - arrival(a)), where (T, L, waiting) is (shift end,
\* end location, 0) behind the last job activity and (LATEST_ARRIVAL,
\* location, WAITING) of the job activity that follows otherwise, and
\* arrival(a) is the one the forward pass computes; activities without a
\* job have no state entry.
C22_BackwardPass ==
    insertion.accept_called =>
        /\ \A i \in 1..Len(tour) :
              tour[i].job <=> (/\ tour[i].id \in DOMAIN route_state.latest
                               /\ tour[i].id \in DOMAIN route_state.waiting)
        /\ \A i \in 1..Len(tour) :
              LET a == tour[i]
                  k == following_job(tour, i)
                  T == IF k = 0 THEN actor.time.end
                       ELSE route_state.latest[tour[k].id]
                  L == IF k # 0 THEN tour[k].loc
                       ELSE IF actor.end # NoLoc THEN actor.end ELSE actor.start
                  waiting == IF k = 0 THEN 0 ELSE route_state.waiting[tour[k].id]
                  arrival == update_schedules(tour)[i].arr
              IN  a.job =>
                    /\ a.arr = arrival
                    /\ route_state.latest[a.id] =
                          Min2(a.twe, T - transport_duration(a.loc, L, T)
                                        - activity_duration(a, T))
                    /\ route_state.waiting[a.id] =
                          waiting + Max2(0, a.tws - arrival)

\* C23 (as claimed): accept_route_state aborts only when the tour has no
\* start activity or the actor has neither an end nor a start location; on
\* a route with a start activity and an actor start location it completes.
C23_AbortsOnlyWithoutStart ==
    route_pc = "panicked" =>
        \/ Len(tour) = 0
        \/ tour[1].job
        \/ (actor.end = NoLoc /\ actor.start = NoLoc)

\* C24 (as claimed): on an open route (actor without end location) the
\* LATEST_ARRIVAL that the backward pass of accept_route_state stores for
\* the last job activity charges no travel for a return leg: it is
\* min(a.tw.end, shift end - service duration), which for an activity
\* without service duration is the bound min(target.tw.end, shift end)
\* that evaluate_activity applied to it when it was inserted as the last
\* activity (next = None).
C24_OpenRouteNoReturnLeg ==
    (/\ route_pc = "inserted"
     /\ actor.end = NoLoc
     /\ insertion.index = Len(tour) - 1) =>
        LET a == tour[Len(tour)]
            stored == Recomputed.state.latest[a.id]
            applied == Min2(a.twe, actor.time.end)
        IN  /\ stored = Min2(a.twe, actor.time.end - activity_duration(a, a.arr))
            /\ activity_duration(a, a.arr) = 0 => stored = applied

\* C25 (as claimed): when next is absent the estimate of an insertion is
\* transport_cost(prev -> target) plus the activity cost of target, counted
\* once, with zero travel cost for the right leg; when the tour had no jobs
\* and next is present, it is the cost of both new legs with no replaced
\* leg and no waiting saving subtracted.
C25_OpenEstimate ==
    route_pc = "inserted" =>
        LET prev == tour[insertion.index]
            target == tour[insertion.index + 1]
            next == tour_get(tour, insertion.index + 1)
            arrival == prev.dep + transport_duration(prev.loc, target.loc, prev.dep)
            departure == Max2(arrival, target.tws) + activity_duration(target, arrival)
            left == transport_cost(prev.loc, target.loc, prev.dep)
                        + activity_cost(target, arrival)
            had_jobs == \E i \in 1..Len(tour) : i # insertion.index + 1 /\ tour[i].job
        IN  /\ next = NoActivity => insertion.estimate = left
            /\ (next # NoActivity /\ ~had_jobs) =>
                    insertion.estimate =
                        left + transport_cost(target.loc, next.loc, departure)
                             + activity_cost(next, departure
                                 + transport_duration(target.loc, next.loc, departure))

----------------------------------------------------------------------------
(* accept_solution_state and departure rescheduling (timing.rs:78-144)     *)

\* The places of the jobs of a finished solution.
SolutionPlaces == [loc : 1..MaxLoc, tws : {0, 3}, twe : {8}, dur : {1}]

SolutionPlaceSeqs == UNION {[1..n -> SolutionPlaces] : n \in 0..MaxStops}

\* The fleet: an open and a closed actor; the solution has a route of each.
SolutionActors ==
    <<[start |-> 0, end |-> NoLoc, time |-> [start |-> 0, end |-> 8]],
      [start |-> 0, end |-> 0, time |-> [start |-> 0, end |-> 8]]>>

\* RouteContext { route, state } of an actor's route through the given
\* places, with the schedules and state the two folds assign to it.
route_context(act, places) ==
    LET t == update_schedules(raw_tour(act, places))
    IN  [actor |-> act, tour |-> t, state |-> update_states(t, act, NoRouteState)]

NoContext == [required |-> 0, routes |-> <<>>, route |-> 0]

SolutionInit ==
    /\ ctx_required \in 0..MaxRequired
    /\ \E places \in [1..Len(SolutionActors) -> SolutionPlaceSeqs] :
          ctx_routes = [i \in 1..Len(SolutionActors) |->
                            route_context(SolutionActors[i], places[i])]
    /\ ctx_before = NoContext
    /\ ctx_pc = "ready"
    /\ ctx_panicked = FALSE

\* TimingConstraintModule::analyze_departures: None when the tour has no
\* activity after the start.
analyze_departures(ctx) ==
    IF Len(ctx.tour) < 2
    THEN [some |-> FALSE, new_departure_time |-> 0, earliest_departure_time |-> 0]
    ELSE LET start == ctx.tour[1]
             first == ctx.tour[2]
             earliest_departure_time == start.tws
             start_to_first ==
                 transport_duration(start.loc, first.loc, earliest_departure_time)
         IN  [some |-> TRUE,
              new_departure_time |->
                  Max2(earliest_departure_time, first.tws - start_to_first),
              earliest_departure_time |-> earliest_departure_time]

\* TimingConstraintModule::reschedule_departure: the start departure is
\* written before accept_route_state is called on the route.
reschedule_departure(ctx) ==
    LET d == analyze_departures(ctx)
    IN  IF d.some /\ d.new_departure_time > d.earliest_departure_time
        THEN LET t == [ctx.tour EXCEPT ![1].dep = d.new_departure_time]
                 r == accept_route_state(t, ctx.actor, ctx.state)
             IN  [panicked |-> r.panicked,
                  ctx |-> [actor |-> ctx.actor, tour |-> r.tour, state |-> r.state]]
        ELSE [panicked |-> FALSE, ctx |-> ctx]

\* ctx.routes.iter().for_each(reschedule_departure) from route i on: a
\* panic ends the iteration.  RouteContext::clone shares the route and the
\* state of the original, so the changes are made to the solution's routes.
RECURSIVE reschedule_each(_, _)
reschedule_each(routes, i) ==
    IF i > Len(routes) THEN [panicked |-> FALSE, routes |-> routes]
    ELSE LET r == reschedule_departure(routes[i])
             changed == [routes EXCEPT ![i] = r.ctx]
         IN  IF r.panicked THEN [panicked |-> TRUE, routes |-> changed]
             ELSE reschedule_each(changed, i + 1)

\* TimingConstraintModule::accept_solution_state
accept_solution_state(required, routes) ==
    IF required = 0 THEN reschedule_each(routes, 1)
    ELSE [panicked |-> FALSE, routes |-> routes]

AcceptSolutionState ==
    /\ ctx_pc = "ready"
    /\ LET r == accept_solution_state(ctx_required, ctx_routes)
       IN  /\ ctx_routes' = r.routes
           /\ ctx_panicked' = r.panicked
    /\ ctx_before' = [required |-> ctx_required, routes |-> ctx_routes, route |-> 0]
    /\ ctx_pc' = "accepted"
    /\ UNCHANGED ctx_required
    /\ UNCHANGED exceptSolution

\* reschedule_departure called for one route of the solution.
RescheduleDeparture ==
    /\ ctx_pc = "ready"
    /\ \E i \in 1..Len(ctx_routes) :
          LET r == reschedule_departure(ctx_routes[i])
          IN  /\ ctx_routes' = [ctx_routes EXCEPT ![i] = r.ctx]
              /\ ctx_panicked' = r.panicked
              /\ ctx_before' =
                    [required |-> ctx_required, routes |-> ctx_routes, route |-> i]
    /\ ctx_pc' = "rescheduled"
    /\ UNCHANGED ctx_required
    /\ UNCHANGED exceptSolution

SolutionNext == AcceptSolutionState \/ RescheduleDeparture

\* The start departure that removes the waiting before the first activity.
departure_without_waiting(t) ==
    Max2(t[1].tws, t[2].tws - transport_duration(t[1].loc, t[2].loc, t[1].tws))

\* C26 (as claimed): accept_solution_state leaves every route's schedule
\* and state unchanged while required is non-empty; when required is empty
\* it returns having set the start departure of each route that has jobs to
\* max(start.tw.start, first.tw.start - travel_duration(start -> first))
\* where that is later than start.tw.start, with the schedules and state of
\* that route recomputed by accept_route_state, and having left the other
\* routes unchanged.
C26_AcceptSolutionState ==
    ctx_pc = "accepted" =>
        IF ctx_before.required # 0 THEN ctx_routes = ctx_before.routes
        ELSE /\ ~ctx_panicked
             /\ \A i \in 1..Len(ctx_routes) :
                   LET before == ctx_before.routes[i]
                       after == ctx_routes[i]
                   IN  IF /\ has_jobs(before.tour)
                          /\ departure_without_waiting(before.tour) > before.tour[1].tws
                       THEN LET t == update_schedules(
                                        [before.tour EXCEPT ![1].dep =
                                            departure_without_waiting(before.tour)])
                            IN  /\ after.tour = t
                                /\ after.state = update_states(t, before.actor, before.state)
                       ELSE after = before

\* C27 (as claimed): reschedule_departure returns with a start departure
\* that is not before start.tw.start, with the departure of every job
\* activity and the arrival at the shift end as they were, and with a
\* schedule that obeys the forward recurrences from the new departure (only
\* the waiting before the first activity is gone); a second application
\* returns and changes nothing.
C27_RescheduleKeepsDepartures ==
    ctx_pc = "rescheduled" =>
        LET before == ctx_before.routes[ctx_before.route]
            after == ctx_routes[ctx_before.route]
            again == reschedule_departure(after)
        IN  /\ ~ctx_panicked
            /\ after.tour[1].dep >= after.tour[1].tws
            /\ \A k \in 2..Len(after.tour) :
                  IF after.tour[k].job
                  THEN after.tour[k].dep = before.tour[k].dep
                  ELSE after.tour[k].arr = before.tour[k].arr
            /\ ScheduleConsistent(after.tour)
            /\ ~again.panicked
            /\ again.ctx = after

----------------------------------------------------------------------------
(* ObjectiveCost (vrp-core/src/models/problem/costs.rs)                    *)

\* The part of an InsertionContext the objectives look at.
Solutions == [unassigned : 0..MaxUnassigned, routes : 0..MaxRoutes, cost : 1..MaxTotalCost]

\* The three objectives of crate::solver::objectives: each orders two
\* solutions by one number, the smaller the better.
objective_total_order(objective, a, b) ==
    CASE objective = "TotalUnassignedJobs" -> cmp_usize(a.unassigned, b.unassigned)
      [] objective = "TotalRoutes" -> cmp_usize(a.routes, b.routes)
      [] objective = "TotalTransportCost" -> compare_floats(a.cost, b.cost)

\* dominance_order(a, b, objectives)
dominance_order(a, b, objectives) ==
    LET less_cnt == Cardinality({i \in 1..Len(objectives) :
                        objective_total_order(objectives[i], a, b) = "Less"})
        greater_cnt == Cardinality({i \in 1..Len(objectives) :
                        objective_total_order(objectives[i], a, b) = "Greater"})
    IN  IF less_cnt > 0 /\ greater_cnt = 0 THEN "Less"
        ELSE IF greater_cnt > 0 /\ less_cnt = 0 THEN "Greater"
        ELSE "Equal"

\* impl Default for ObjectiveCost
ObjectiveCost_default ==
    [primary_objectives |-> <<"TotalUnassignedJobs", "TotalRoutes">>,
     secondary_objectives |-> <<"TotalTransportCost">>]

\* ObjectiveCost::total_order
total_order(self, a, b) ==
    LET order == dominance_order(a, b, self.primary_objectives)
    IN  IF order = "Equal"
        THEN dominance_order(a, b, self.secondary_objectives)
        ELSE order

\* The pairs of (a, b, c) total_order is called on, in this order.
ComparedPairs == <<<<1, 2>>, <<2, 1>>, <<2, 3>>, <<1, 3>>>>

ObjInit ==
    /\ obj_solutions \in [1..3 -> Solutions]
    /\ obj_orders = <<>>

\* One call of the default objective's total_order on the next pair.
TotalOrder ==
    /\ Len(obj_orders) < Len(ComparedPairs)
    /\ LET pair == ComparedPairs[Len(obj_orders) + 1]
       IN  obj_orders' =
               Append(obj_orders,
                      total_order(ObjectiveCost_default,
                                  obj_solutions[pair[1]], obj_solutions[pair[2]]))
    /\ UNCHANGED obj_solutions
    /\ UNCHANGED exceptObj

ObjNext == TotalOrder

\* Ordering::reverse
reverse(order) ==
    CASE order = "Less" -> "Greater"
      [] order = "Greater" -> "Less"
      [] order = "Equal" -> "Equal"

\* C13 (as claimed): total_order(b, a) is the reverse of total_order(a, b),
\* and whenever a is ordered Less or Equal to b and b Less or Equal to c,
\* a is ordered Less or Equal to c.
C13_TotalOrdering ==
    Len(obj_orders) = Len(ComparedPairs) =>
        /\ obj_orders[2] = reverse(obj_orders[1])
        /\ (obj_orders[1] \in {"Less", "Equal"} /\ obj_orders[3] \in {"Less", "Equal"})
              => obj_orders[4] \in {"Less", "Equal"}

\* Lexicographic comparison by unassigned jobs, then routes, then cost.
lexicographic_order(a, b) ==
    IF a.unassigned # b.unassigned THEN cmp_usize(a.unassigned, b.unassigned)
    ELSE IF a.routes # b.routes THEN cmp_usize(a.routes, b.routes)
    ELSE compare_floats(a.cost, b.cost)

\* C14 (as claimed): the default objective orders two solutions by the
\* number of unassigned jobs, then by the number of routes, then by the total
\* cost: fewer unassigned jobs win whatever the routes and costs, and the
\* cost decides only between solutions equal in both counts.
C14_UnassignedRoutesCost ==
    Len(obj_orders) >= 1 =>
        obj_orders[1] = lexicographic_order(obj_solutions[1], obj_solutions[2])

----------------------------------------------------------------------------
(* CompositeRecreate (core/src/refinement/recreate/mod.rs)                 *)

Strategies == {"RecreateWithCheapest", "RecreateWithBlinks", "RecreateWithGaps"}

Weights == {10, 50, 100}

\* impl Default for CompositeRecreate: the vector it passes to new
CompositeRecreate_default ==
    <<[recreate |-> "RecreateWithCheapest", weight |-> 10],
      [recreate |-> "RecreateWithBlinks", weight |-> 100],
      [recreate |-> "RecreateWithGaps", weight |-> 50]>>

\* The vectors new can be given: some strategies, each once, in any order,
\* each with a weight.
Registrations ==
    {r \in UNION {[1..n -> [recreate : Strategies, weight : Weights]] : n \in 1..3} :
        \A i, j \in 1..Len(r) : r[i].recreate = r[j].recreate => i = j}

\* One step of recreates.sort_by(|(_, a), (_, b)| b.cmp(&a)), a stable sort:
\* x goes before the first entry with a smaller weight.
RECURSIVE insert_by_weight(_, _)
insert_by_weight(sorted, x) ==
    IF sorted = <<>> THEN <<x>>
    ELSE IF Head(sorted).weight < x.weight
         THEN <<x>> \o sorted
         ELSE <<Head(sorted)>> \o insert_by_weight(Tail(sorted), x)

RECURSIVE sort_by_weight(_)
sort_by_weight(s) ==
    IF s = <<>> THEN <<>>
    ELSE insert_by_weight(sort_by_weight(SubSeq(s, 1, Len(s) - 1)), s[Len(s)])

\* A faulty variant of new that keeps the registration order.
new_keeps_order(given) ==
    [recreates |-> [i \in 1..Len(given) |-> given[i].recreate],
     weights |-> [i \in 1..Len(given) |-> given[i].weight]]

\* CompositeRecreate::new
new(given) ==
    LET sorted == sort_by_weight(given)
    IN  [recreates |-> [i \in 1..Len(sorted) |-> sorted[i].recreate],
         weights |-> [i \in 1..Len(sorted) |-> sorted[i].weight]]

\* insertion_ctx.random.weighted(weights): the indices, counted from 0, a
\* weighted draw can return.
weighted(ws) == {i - 1 : i \in {j \in 1..Len(ws) : ws[j] > 0}}

\* CompositeRecreate::run: the strategy it delegates to and the number of
\* draws it takes from the RNG, given what a draw would return.
run(self, gen, drawn) ==
    LET index == IF gen = 1 THEN 0 ELSE drawn
    IN  [generation |-> gen,
         recreate |-> self.recreates[index + 1],
         draws |-> IF gen = 1 THEN 0 ELSE 1]

RecreateInit ==
    /\ registered \in Registrations
    /\ recreates = new(registered).recreates
    /\ weights = new(registered).weights
    /\ rec_generation = 1
    /\ rec_pc = "recreate"
    /\ rec_runs = <<>>

\* The refinement loop applies recreate.
Run ==
    /\ rec_pc = "recreate"
    /\ \E drawn \in weighted(weights) :
          rec_runs' = Append(rec_runs,
              run([recreates |-> recreates, weights |-> weights], rec_generation, drawn))
    /\ rec_pc' = "accept"
    /\ UNCHANGED <<registered, recreates, weights, rec_generation>>
    /\ UNCHANGED exceptRecreate

\* The refinement loop goes on to the next generation.
NextRecreateGeneration ==
    /\ rec_pc = "accept"
    /\ rec_generation < MaxRuns
    /\ rec_generation' = rec_generation + 1
    /\ rec_pc' = "recreate"
    /\ UNCHANGED <<registered, recreates, weights, rec_runs>>
    /\ UNCHANGED exceptRecreate

RecreateNext == Run \/ NextRecreateGeneration

\* The weight a strategy was registered with.
registered_weight(strategy) ==
    (CHOOSE e \in Range(registered) : e.recreate = strategy).weight

\* C15: the run of generation 1 delegates to a strategy registered with the
\* largest weight (RecreateWithBlinks for the default composite) without
\* drawing from the RNG; the run of any other generation takes one weighted
\* draw and delegates to one registered strategy.
C15_FirstGenerationHeaviest ==
    \A k \in 1..Len(rec_runs) :
        LET r == rec_runs[k]
        IN  /\ r.recreate \in {e.recreate : e \in Range(registered)}
            /\ IF r.generation = 1
               THEN /\ \A e \in Range(registered) :
                          e.weight <= registered_weight(r.recreate)
                    /\ r.draws = 0
                    /\ registered = CompositeRecreate_default
                          => r.recreate = "RecreateWithBlinks"
               ELSE /\ r.draws = 1
                    /\ registered_weight(r.recreate) > 0

\* C15 is exercised: the heaviest strategy was registered last, generation 1
\* has run and a later generation has run a lighter strategy.
C15_Witness ==
    /\ Len(rec_runs) >= 2
    /\ Len(registered) >= 2
    /\ \A i \in 1..(Len(registered) - 1) :
          registered[i].weight < registered[Len(registered)].weight
    /\ rec_runs[1].generation = 1
    /\ rec_runs[2].recreate # rec_runs[1].recreate

----------------------------------------------------------------------------
(* Solomon solution writer (src/streams/output/text/solomon.rs)            *)

\* a.job of the start and end activities of a tour
NoJob == 0

Customers == 1..MaxCustomers

\* Sequences of distinct customers.
JobSeqs ==
    {s \in UNION {[1..n -> Customers] : n \in 0..MaxCustomers} :
        \A i, j \in 1..Len(s) : s[i] = s[j] => i = j}

\* tour.all_activities(): the start, the job activities in tour order and,
\* on a closed tour, the end.
all_activities(jobs, closed) ==
    <<[job |-> NoJob]>> \o [i \in 1..Len(jobs) |-> [job |-> jobs[i]]]
        \o (IF closed THEN <<[job |-> NoJob]>> ELSE <<>>)

Tours == {all_activities(jobs, closed) : jobs \in JobSeqs, closed \in BOOLEAN}

\* The jobs a route visits.
route_jobs(t) == {t[i].job : i \in 1..Len(t)} \ {NoJob}

\* The solutions of a problem with these customers: every customer is on at
\* most one route and is not unassigned if it is on a route.
SolomonSolutions ==
    {s \in [routes : UNION {[1..n -> Tours] : n \in 0..MaxSolutionRoutes},
            unassigned : SUBSET Customers] :
        /\ \A i, j \in 1..Len(s.routes) :
              i # j => route_jobs(s.routes[i]) \cap route_jobs(s.routes[j]) = {}
        /\ \A i \in 1..Len(s.routes) : route_jobs(s.routes[i]) \cap s.unassigned = {}}

\* job.dimens.get_id(): the Solomon reader names a customer by its number
get_id(job) == ToString(job)

\* Vec<String>::join(sep), as the pieces of the joined string
RECURSIVE join(_, _)
join(strings, sep) ==
    IF Len(strings) = 0 THEN <<>>
    ELSE IF Len(strings) = 1 THEN <<strings[1]>>
    ELSE <<strings[1], sep>> \o join(Tail(strings), sep)

\* A faulty variant that lists every activity, with or without a job.
customers_all_activities(t) ==
    join([i \in 1..Len(t) |-> get_id(t[i].job)], " ")

\* lines 17-32: the ids of the activities that have a job, joined by " "
customers(t) ==
    LET with_job == SelectSeq(t, LAMBDA a : a.job # NoJob)
    IN  join([i \in 1..Len(with_job) |-> get_id(with_job[i].job)], " ")

\* format!("Route {}: {}\n", i, customers)
format_route(i, t) == <<"Route ", ToString(i), ": ">> \o customers(t) \o <<"\n">>

\* lines 16-34: routes.iter().zip(1..).for_each(..), from route i on
RECURSIVE write_routes(_, _, _)
write_routes(w, routes, i) ==
    IF i > Len(routes) THEN w
    ELSE write_routes(w \o format_route(i, routes[i]), routes, i + 1)

\* A faulty variant that writes the header before it looks at unassigned.
write_solomon_solution_header_first(w, s) ==
    IF s.unassigned # {}
    THEN [result |-> "Err", writer |-> w \o <<"Solution", "\n">>]
    ELSE [result |-> "Ok",
          writer |-> write_routes(w \o <<"Solution", "\n">>, s.routes, 1)]

\* write_solomon_solution(writer, solution)
write_solomon_solution(w, s) ==
    IF s.unassigned # {}
    THEN [result |-> "Err", writer |-> w]
    ELSE [result |-> "Ok",
          writer |-> write_routes(w \o <<"Solution", "\n">>, s.routes, 1)]

SolomonInit ==
    /\ solution \in SolomonSolutions
    /\ writer = <<>>
    /\ write_result = "none"

WriteSolomonSolution ==
    /\ write_result = "none"
    /\ LET r == write_solomon_solution(writer, solution)
       IN  /\ writer' = r.writer
           /\ write_result' = r.result
    /\ UNCHANGED solution
    /\ UNCHANGED exceptSolomon

SolomonNext == WriteSolomonSolution

\* C16: a solution with an unassigned job makes write_solomon_solution
\* return an error, and nothing has been written to the writer.
C16_UnassignedIsError ==
    (write_result # "none" /\ solution.unassigned # {}) =>
        (write_result = "Err" /\ writer = <<>>)

\* C16 is exercised: the writer was called on a solution with routes that
\* visit jobs and with an unassigned job.
C16_Witness ==
    /\ write_result = "Err"
    /\ solution.unassigned # {}
    /\ \E i \in 1..Len(solution.routes) : route_jobs(solution.routes[i]) # {}

\* The output cut into lines: line k is what stands between the (k-1)th and
\* the kth "\n".
Newlines == {p \in 1..Len(writer) : writer[p] = "\n"}

LineCount == Cardinality(Newlines)

LineEnd(k) == CHOOSE p \in Newlines : Cardinality({q \in Newlines : q <= p}) = k

Line(k) == SubSeq(writer, IF k = 1 THEN 1 ELSE LineEnd(k - 1) + 1, LineEnd(k) - 1)

\* The jobs of a tour in tour order, start and end left out.
JobsInTourOrder(t) == SelectSeq([i \in 1..Len(t) |-> t[i].job], LAMBDA j : j # NoJob)

\* C17: for a solution without unassigned jobs the output is the line
\* Solution followed by one line per route, the kth of them being
\* "Route k: " and the ids of the route's job activities in tour order,
\* single spaces between them, start and end left out.
C17_OneLinePerRoute ==
    (write_result # "none" /\ solution.unassigned = {}) =>
        /\ write_result = "Ok"
        /\ writer # <<>> /\ writer[Len(writer)] = "\n"
        /\ LineCount = 1 + Len(solution.routes)
        /\ Line(1) = <<"Solution">>
        /\ \A k \in 1..Len(solution.routes) :
              LET line == Line(k + 1)
                  jobs == JobsInTourOrder(solution.routes[k])
                  n == Len(jobs)
              IN  /\ Len(line) = 3 + (IF n = 0 THEN 0 ELSE 2 * n - 1)
                  /\ line[1] = "Route " /\ line[2] = ToString(k) /\ line[3] = ": "
                  /\ \A j \in 1..n : line[2 + 2 * j] = ToString(jobs[j])
                  /\ \A j \in 1..(n - 1) : line[3 + 2 * j] = " "

\* C17 is exercised: two routes were written, the second a closed tour
\* with two jobs.
C17_Witness ==
    /\ write_result = "Ok"
    /\ Len(solution.routes) >= 2
    /\ Len(JobsInTourOrder(solution.routes[2])) >= 2
    /\ solution.routes[2][Len(solution.routes[2])].job = NoJob

----------------------------------------------------------------------------
(* Command line interface (cli/src/main.rs)                                *)

NoExit == -1

\* An optional file argument: not given, given and openable, or given and
\* not openable.
OptionalFiles == {"absent", "opens", "fails"}

\* What one run of main can meet.
CliEnvironments ==
    [problem_file_opens : BOOLEAN,
     max_generations_parses : BOOLEAN,
     variation_coefficient_parses : BOOLEAN,
     minimize_routes_parses : BOOLEAN,
     init_solution : OptionalFiles,
     matrix_files : OptionalFiles,
     format_known : BOOLEAN,
     problem_reader_ok : BOOLEAN,
     solution_found : BOOLEAN,
     solution_writer_ok : BOOLEAN]

CliInit ==
    /\ cli_env \in CliEnvironments
    /\ cli_pc = "open_problem"
    /\ exit_code = NoExit
    /\ cli_out = <<>>
    /\ cli_failed = "none"

\* eprintln!(message); process::exit(1)
exit_with_error(message, error) ==
    /\ cli_pc' = "exited"
    /\ exit_code' = 1
    /\ cli_out' = Append(cli_out, message)
    /\ cli_failed' = error

\* main goes on to its next statement.
continue_at(next) ==
    /\ cli_pc' = next
    /\ UNCHANGED <<exit_code, cli_out, cli_failed>>

\* line 22: open_file(problem_path, "problem")
OpenProblemFile ==
    /\ cli_pc = "open_problem"
    /\ IF cli_env.problem_file_opens
       THEN continue_at("max_generations")
       ELSE exit_with_error("Cannot open problem file", "problem file")
    /\ UNCHANGED cli_env
    /\ UNCHANGED exceptCli

\* lines 25-28
ParseMaxGenerations ==
    /\ cli_pc = "max_generations"
    /\ IF cli_env.max_generations_parses
       THEN continue_at("variation_coefficient")
       ELSE exit_with_error("Cannot get max generations", "max generations")
    /\ UNCHANGED cli_env
    /\ UNCHANGED exceptCli

\* lines 29-39
ParseVariationCoefficient ==
    /\ cli_pc = "variation_coefficient"
    /\ IF cli_env.variation_coefficient_parses
       THEN continue_at("minimize_routes")
       ELSE exit_with_error("Cannot get variation coefficient", "variation coefficient")
    /\ UNCHANGED cli_env
    /\ UNCHANGED exceptCli

\* lines 40-43
ParseMinimizeRoutes ==
    /\ cli_pc = "minimize_routes"
    /\ IF cli_env.minimize_routes_parses
       THEN continue_at("init_solution")
       ELSE exit_with_error("Cannot get minimize routes", "minimize routes")
    /\ UNCHANGED cli_env
    /\ UNCHANGED exceptCli

\* line 44: value_of(INIT_SOLUTION_ARG_NAME).map(|path| open_file(path, ..))
OpenInitSolution ==
    /\ cli_pc = "init_solution"
    /\ IF cli_env.init_solution # "fails"
       THEN continue_at("matrix_files")
       ELSE exit_with_error("Cannot open init solution file", "init solution file")
    /\ UNCHANGED cli_env
    /\ UNCHANGED exceptCli

\* lines 45-47
OpenMatrixFiles ==
    /\ cli_pc = "matrix_files"
    /\ IF cli_env.matrix_files # "fails"
       THEN continue_at("format")
       ELSE exit_with_error("Cannot open routing matrix file", "matrix file")
    /\ UNCHANGED cli_env
    /\ UNCHANGED exceptCli

\* lines 49-50 and 73-76: formats.get(problem_format)
GetFormat ==
    /\ cli_pc = "format"
    /\ IF cli_env.format_known
       THEN continue_at("read_problem")
       ELSE exit_with_error("Unknown format", "unknown format")
    /\ UNCHANGED cli_env
    /\ UNCHANGED exceptCli

\* lines 51-52 and 67-70: problem_reader.0(problem_file, matrix_files)
ReadProblem ==
    /\ cli_pc = "read_problem"
    /\ IF cli_env.problem_reader_ok
       THEN continue_at("solve")
       ELSE exit_with_error("Cannot read problem", "problem reader")
    /\ UNCHANGED cli_env
    /\ UNCHANGED exceptCli

\* lines 53-65: the init solution is read, the solver runs; without a
\* solution the notice is printed and main returns.
Solve ==
    /\ cli_pc = "solve"
    /\ IF cli_env.solution_found
       THEN continue_at("write_solution")
       ELSE /\ cli_pc' = "exited"
            /\ exit_code' = 0
            /\ cli_out' = Append(cli_out, "Cannot find any solution")
            /\ UNCHANGED cli_failed
    /\ UNCHANGED cli_env
    /\ UNCHANGED exceptCli

\* line 63: solution_writer.0(&problem, solution.0).unwrap(); an Err makes
\* unwrap panic, and a panic of the main thread ends the process with 101.
WriteSolution ==
    /\ cli_pc = "write_solution"
    /\ IF cli_env.solution_writer_ok
       THEN /\ exit_code' = 0
            /\ cli_out' = Append(cli_out, "solution")
            /\ UNCHANGED cli_failed
       ELSE /\ exit_code' = 101
            /\ cli_out' = Append(cli_out, "thread 'main' panicked")
            /\ cli_failed' = "solution writer"
    /\ cli_pc' = "exited"
    /\ UNCHANGED cli_env
    /\ UNCHANGED exceptCli

CliNext ==
    \/ OpenProblemFile
    \/ ParseMaxGenerations
    \/ ParseVariationCoefficient
    \/ ParseMinimizeRoutes
    \/ OpenInitSolution
    \/ OpenMatrixFiles
    \/ GetFormat
    \/ ReadProblem
    \/ Solve
    \/ WriteSolution

\* C18 (as claimed): the process ends with exit code 1 when it ran into an
\* error (a file that cannot be opened, an argument value that cannot be
\* parsed, an unknown format, a problem reader error, a solution writer
\* error) and with exit code 0 when it wrote a solution or printed the
\* notice that none was found.
C18_ExitCodes ==
    cli_pc = "exited" =>
        IF cli_failed # "none" THEN exit_code = 1 ELSE exit_code = 0

----------------------------------------------------------------------------
(* Matrix transport costs (vrp-core/src/models/problem/costs.rs)           *)

\* A Vec of len entries; the values of the entries play no role here.
vec_of_len(len) == [i \in 1..len |-> 0]

\* MatrixData: profile, timestamp (None if absent), durations, distances
MatrixDatas ==
    {[profile |-> p, timestamp |-> ts,
      durations |-> vec_of_len(n), distances |-> vec_of_len(k)] :
        p \in {0, 1}, ts \in {None, 0}, n \in 3..MaxEntries, k \in 3..MaxEntries}

MatrixInputs == UNION {[1..n -> MatrixDatas] : n \in 0..MaxMatrices}

\* (len as f64).sqrt() as usize: the square root rounded down
sqrt_as_usize(len) == CHOOSE r \in 0..len : r * r <= len /\ (r + 1) * (r + 1) > len

\* One step of costs.sort_by(|a, b| a.profile.cmp(&b.profile)), a stable sort
RECURSIVE insert_by_profile(_, _)
insert_by_profile(sorted, x) ==
    IF sorted = <<>> THEN <<x>>
    ELSE IF Head(sorted).profile > x.profile
         THEN <<x>> \o sorted
         ELSE <<Head(sorted)>> \o insert_by_profile(Tail(sorted), x)

RECURSIVE sort_by_profile(_)
sort_by_profile(s) ==
    IF s = <<>> THEN <<>>
    ELSE insert_by_profile(sort_by_profile(SubSeq(s, 1, Len(s) - 1)), s[Len(s)])

\* TimeAgnosticMatrixTransportCost::new
TimeAgnosticMatrixTransportCost_new(costs, matrix_size) ==
    LET sorted == sort_by_profile(costs)
    IN  IF \E i \in 1..Len(sorted) : sorted[i].timestamp # None
        THEN "Time aware routing"
        ELSE IF \E i \in 1..Len(sorted) : sorted[i].profile # i - 1
        THEN "Duplicate profiles can be passed only for time aware routing"
        ELSE "Ok"

\* TimeAwareMatrixTransportCost::new
TimeAwareMatrixTransportCost_new(costs, matrix_size) ==
    IF \E i \in 1..Len(costs) : costs[i].timestamp = None
    THEN "Cannot use matrix without timestamp"
    ELSE IF \E i \in 1..Len(costs) :
                Cardinality({j \in 1..Len(costs) : costs[j].profile = costs[i].profile}) = 1
    THEN "Should not use time aware matrix routing with single matrix"
    ELSE "Ok"

\* create_matrix_transport_cost(costs): "Ok" or the message of the Err
create_matrix_transport_cost(costs) ==
    IF Len(costs) = 0 THEN "No matrix data found"
    ELSE
    LET matrix_size == sqrt_as_usize(Len(costs[1].durations))
    IN  IF \E i \in 1..Len(costs) : Len(costs[i].distances) # Len(costs[i].durations)
        THEN "Distance and duration collections have different length"
        ELSE IF \E i \in 1..Len(costs) : sqrt_as_usize(Len(costs[i].distances)) # matrix_size
        THEN "Distance lengths don't match"
        ELSE IF \E i \in 1..Len(costs) : sqrt_as_usize(Len(costs[i].durations)) # matrix_size
        THEN "Duration lengths don't match"
        ELSE IF \E i \in 1..Len(costs) : costs[i].timestamp # None
        THEN TimeAwareMatrixTransportCost_new(costs, matrix_size)
        ELSE TimeAgnosticMatrixTransportCost_new(costs, matrix_size)

MatrixInit ==
    /\ matrix_costs \in MatrixInputs
    /\ matrix_result = "none"

CreateMatrixTransportCost ==
    /\ matrix_result = "none"
    /\ matrix_result' = create_matrix_transport_cost(matrix_costs)
    /\ UNCHANGED matrix_costs
    /\ UNCHANGED exceptMatrix

MatrixNext == CreateMatrixTransportCost

\* C19 (as claimed): create_matrix_transport_cost returns Ok only if it is
\* given at least one matrix, every matrix has as many durations as
\* distances, and all matrices have the same number of entries.
C19_OkOnlyIfSameSize ==
    matrix_result = "Ok" =>
        /\ Len(matrix_costs) > 0
        /\ \A i \in 1..Len(matrix_costs) :
              Len(matrix_costs[i].durations) = Len(matrix_costs[i].distances)
        /\ \A i, j \in 1..Len(matrix_costs) :
              Len(matrix_costs[i].durations) = Len(matrix_costs[j].durations)

----------------------------------------------------------------------------
(* Vehicle validation (vrp-pragmatic/src/validation/vehicles.rs)           *)

\* "2200-07-04T00:00:00Z", the end of a shift that has none, as a time
\* later than every other time.
ShiftEndDefault == 2200

TimeWindowOf(start, end) == [start |-> start, end |-> end]

\* Option<Vec<..>> of a shift's breaks or reloads, as their time windows
NoTimes == [is_some |-> FALSE, times |-> <<>>]

SomeTimes(tws) == [is_some |-> TRUE, times |-> tws]

\* A shift: start time, end time (None if the shift has no end), and the
\* time windows of its breaks and of its reloads.
VehicleShifts ==
    [start : {0, 2}, end : {None, 1},
     breaks : {NoTimes, SomeTimes(<<TimeWindowOf(3, 4)>>)},
     reloads : {NoTimes, SomeTimes(<<TimeWindowOf(4, 3)>>)}]

\* A vehicle type with one shift.
VehicleTypes ==
    [type_id : {"a", "b"}, vehicle_ids : {<<"v1">>, <<"v2">>},
     shifts : {<<shift>> : shift \in VehicleShifts}]

Fleets == UNION {[1..n -> VehicleTypes] : n \in 1..MaxVehicleTypes}

\* get_duplicates(items): the items met more than once, each named once;
\* the empty sequence stands for None.
get_duplicates(items) ==
    LET repeated(i) == \E k \in 1..(i - 1) : items[k] = items[i]
        second(i) == repeated(i) /\ ~\E k \in 1..(i - 1) : repeated(k) /\ items[k] = items[i]
        at == {i \in 1..Len(items) : second(i)}
        RECURSIVE pick(_)
        pick(from) ==
            IF \A i \in at : i < from THEN <<>>
            ELSE LET i == CHOOSE x \in at : x >= from /\ \A y \in at : y >= from => x <= y
                 IN  <<items[i]>> \o pick(i + 1)
    IN  pick(1)

\* Ok(()) of a check
CheckOk == [code |-> "Ok", ids |-> <<>>]

\* TimeWindow::intersects
intersects(a, b) == a.start <= b.end /\ b.start <= a.end

\* check_time_windows(tws, skip_intersection_check): every window is well
\* formed and, unless skipped, no two of them intersect.
check_time_windows(tws, skip_intersection_check) ==
    /\ \A i \in 1..Len(tws) : tws[i].start <= tws[i].end
    /\ skip_intersection_check
          \/ \A i, j \in 1..Len(tws) : i # j => ~intersects(tws[i], tws[j])

\* The sequences of a sequence of sequences, one after the other.
RECURSIVE flatten(_)
flatten(seqs) == IF seqs = <<>> THEN <<>> ELSE Head(seqs) \o flatten(Tail(seqs))

\* filter_map(..).collect(): the type ids of the vehicles that fail Test, in order
type_ids_where(ctx, Test(_)) ==
    LET failing == SelectSeq(ctx, Test)
    IN  [i \in 1..Len(failing) |-> failing[i].type_id]

\* check_e1003_no_vehicle_types_with_duplicate_type_ids
check_e1003(ctx) ==
    LET ids == get_duplicates([i \in 1..Len(ctx) |-> ctx[i].type_id])
    IN  IF ids = <<>> THEN CheckOk ELSE [code |-> "E1003", ids |-> ids]

\* check_e1004_no_vehicle_types_with_duplicate_ids
check_e1004(ctx) ==
    LET ids == get_duplicates(flatten([i \in 1..Len(ctx) |-> ctx[i].vehicle_ids]))
    IN  IF ids = <<>> THEN CheckOk ELSE [code |-> "E1004", ids |-> ids]

\* check_e1005_vehicle_shift_time
check_e1005(ctx) ==
    LET shift_window(shift) ==
            TimeWindowOf(shift.start, IF shift.end = None THEN shift.start ELSE shift.end)
        correct(vehicle) ==
            check_time_windows(
                [i \in 1..Len(vehicle.shifts) |-> shift_window(vehicle.shifts[i])], FALSE)
        type_ids == type_ids_where(ctx, LAMBDA vehicle : ~correct(vehicle))
    IN  IF type_ids = <<>> THEN CheckOk ELSE [code |-> "E1005", ids |-> type_ids]

\* get_shift_time_window
get_shift_time_window(shift) ==
    TimeWindowOf(shift.start, IF shift.end = None THEN ShiftEndDefault ELSE shift.end)

\* check_shift_time_windows
check_shift_time_windows(shift_time, tws, skip_intersection_check) ==
    \/ tws = <<>>
    \/ /\ check_time_windows(tws, skip_intersection_check)
       /\ \A i \in 1..Len(tws) : intersects(tws[i], shift_time)

\* get_invalid_type_ids(ctx, check_shift)
get_invalid_type_ids(ctx, check_shift(_, _)) ==
    type_ids_where(ctx, LAMBDA vehicle :
        ~(\A i \in 1..Len(vehicle.shifts) :
              check_shift(vehicle.shifts[i], get_shift_time_window(vehicle.shifts[i]))))

\* check_e1006_vehicle_breaks_time_is_correct
check_e1006(ctx) ==
    LET type_ids == get_invalid_type_ids(ctx, LAMBDA shift, shift_time :
            IF ~shift.breaks.is_some THEN TRUE
            ELSE check_shift_time_windows(shift_time, shift.breaks.times, FALSE))
    IN  IF type_ids = <<>> THEN CheckOk ELSE [code |-> "E1006", ids |-> type_ids]

\* check_e1007_vehicle_reload_time_is_correct
check_e1007(ctx) ==
    LET type_ids == get_invalid_type_ids(ctx, LAMBDA shift, shift_time :
            IF ~shift.reloads.is_some THEN TRUE
            ELSE check_shift_time_windows(shift_time, shift.reloads.times, TRUE))
    IN  IF type_ids = <<>> THEN CheckOk ELSE [code |-> "E1007", ids |-> type_ids]

\* result.err().iter().cloned(): the message of an Err, nothing of an Ok
err(result) == IF result.code = "Ok" THEN <<>> ELSE <<result>>

\* A faulty variant that returns at the first check that fails.
validate_vehicles_first_failure(ctx) ==
    LET errors == err(check_e1003(ctx)) \o err(check_e1004(ctx)) \o err(check_e1005(ctx))
                    \o err(check_e1006(ctx)) \o err(check_e1007(ctx))
    IN  IF errors = <<>> THEN [status |-> "Ok", errors |-> <<>>]
        ELSE [status |-> "Err", errors |-> <<Head(errors)>>]

\* validate_vehicles(ctx)
validate_vehicles(ctx) ==
    LET errors == err(check_e1003(ctx)) \o err(check_e1004(ctx)) \o err(check_e1005(ctx))
                    \o err(check_e1006(ctx)) \o err(check_e1007(ctx))
    IN  IF errors = <<>> THEN [status |-> "Ok", errors |-> <<>>]
        ELSE [status |-> "Err", errors |-> errors]

NotValidated == [status |-> "none", errors |-> <<>>]

ValidationInit ==
    /\ fleet_vehicles \in Fleets
    /\ validation_result = NotValidated

ValidateVehicles ==
    /\ validation_result.status = "none"
    /\ validation_result' = validate_vehicles(fleet_vehicles)
    /\ UNCHANGED fleet_vehicles
    /\ UNCHANGED exceptValidation

ValidationNext == ValidateVehicles

\* What each check says about the fleet, by code, in the order of the code.
CheckCodes == <<"E1003", "E1004", "E1005", "E1006", "E1007">>

CheckOf(code) ==
    CASE code = "E1003" -> check_e1003(fleet_vehicles)
      [] code = "E1004" -> check_e1004(fleet_vehicles)
      [] code = "E1005" -> check_e1005(fleet_vehicles)
      [] code = "E1006" -> check_e1006(fleet_vehicles)
      [] code = "E1007" -> check_e1007(fleet_vehicles)

\* C20: validate_vehicles returns Ok exactly when none of the five checks
\* fails; otherwise its Err holds the message of every failing check and of
\* no other, each once, in the order E1003, E1004, E1005, E1006, E1007.
C20_AllFailingChecksReported ==
    validation_result.status \in {"Ok", "Err"} =>
        LET errors == validation_result.errors
            failed(c) == CheckOf(CheckCodes[c]).code # "Ok"
        IN  /\ validation_result.status = "Ok" <=> \A c \in 1..5 : ~failed(c)
            /\ validation_result.status = "Ok" => errors = <<>>
            /\ validation_result.status = "Err" => errors # <<>>
            /\ \A c \in 1..5 :
                  LET at == {i \in 1..Len(errors) : errors[i].code = CheckCodes[c]}
                  IN  IF ~failed(c) THEN at = {}
                      ELSE /\ Cardinality(at) = 1
                           /\ \A i \in at : errors[i].ids = CheckOf(CheckCodes[c]).ids
            /\ \A i, j \in 1..Len(errors) :
                  i < j => \E c, d \in 1..5 :
                              /\ c < d
                              /\ errors[i].code = CheckCodes[c]
                              /\ errors[j].code = CheckCodes[d]

\* C20 is exercised: the first and the last check fail on the same fleet,
\* a check between them passes, and both messages are returned.
C20_Witness ==
    /\ validation_result.status = "Err"
    /\ CheckOf("E1003").code # "Ok"
    /\ CheckOf("E1005").code = "Ok"
    /\ CheckOf("E1007").code # "Ok"
    /\ Len(validation_result.errors) >= 2

----------------------------------------------------------------------------
(* Specifications                                                          *)

PopIdle ==
    /\ minimize_routes = FALSE
    /\ batch_size = 2
    /\ less_costs = <<>>
    /\ less_unassigned = <<>>
    /\ less_routes = <<>>
    /\ added = {}
    /\ lastAdd = NoAdd

CvIdle ==
    /\ generation = 1
    /\ state_costs = <<>>
    /\ sample = 1
    /\ threshold = [num |-> 0, den |-> 1]
    /\ cv_result = FALSE
    /\ cv_pc = "consult"
    /\ cv_history = <<>>
    /\ cv_written = {}

RouteIdle ==
    /\ actor = [start |-> 0, end |-> NoLoc, time |-> [start |-> 0, end |-> 8]]
    /\ tour = <<>>
    /\ route_state = NoRouteState
    /\ route_pc = "idle"
    /\ evaluation = NoEvaluation
    /\ insertion = NoInsertion

ObjIdle ==
    /\ obj_solutions = <<>>
    /\ obj_orders = <<>>

RecreateIdle ==
    /\ registered = <<>>
    /\ recreates = <<>>
    /\ weights = <<>>
    /\ rec_generation = 1
    /\ rec_pc = "idle"
    /\ rec_runs = <<>>

SolomonIdle ==
    /\ solution = [routes |-> <<>>, unassigned |-> {}]
    /\ writer = <<>>
    /\ write_result = "idle"

CliIdle ==
    /\ cli_env = [format_known |-> FALSE]
    /\ cli_pc = "idle"
    /\ exit_code = NoExit
    /\ cli_out = <<>>
    /\ cli_failed = "none"

MatrixIdle ==
    /\ matrix_costs = <<>>
    /\ matrix_result = "idle"

ValidationIdle ==
    /\ fleet_vehicles = <<>>
    /\ validation_result = [status |-> "idle", errors |-> <<>>]

SolutionIdle ==
    /\ ctx_required = 0
    /\ ctx_routes = <<>>
    /\ ctx_before = NoContext
    /\ ctx_pc = "idle"
    /\ ctx_panicked = FALSE

\* The population under arbitrary sequences of add.
InitPopulation ==
    /\ PopInit
    /\ CvIdle
    /\ RouteIdle
    /\ ObjIdle
    /\ RecreateIdle
    /\ SolomonIdle
    /\ CliIdle
    /\ MatrixIdle
    /\ ValidationIdle
    /\ SolutionIdle

NextPopulation == PopNext

SpecPopulation == InitPopulation /\ [][NextPopulation]_vars

\* The refinement loop consulting CostVariation once per generation.
InitTermination ==
    /\ CvInit
    /\ PopIdle
    /\ RouteIdle
    /\ ObjIdle
    /\ RecreateIdle
    /\ SolomonIdle
    /\ CliIdle
    /\ MatrixIdle
    /\ ValidationIdle
    /\ SolutionIdle

NextTermination == CvNext

SpecTermination == InitTermination /\ [][NextTermination]_vars

\* One route under insertions by the insertion evaluator.
InitTiming ==
    /\ RouteInit
    /\ PopIdle
    /\ CvIdle
    /\ ObjIdle
    /\ RecreateIdle
    /\ SolomonIdle
    /\ CliIdle
    /\ MatrixIdle
    /\ ValidationIdle
    /\ SolutionIdle

NextTiming == RouteNext

SpecTiming == InitTiming /\ [][NextTiming]_vars

\* The default objective comparing three solutions pairwise.
InitObjective ==
    /\ ObjInit
    /\ PopIdle
    /\ CvIdle
    /\ RouteIdle
    /\ RecreateIdle
    /\ SolomonIdle
    /\ CliIdle
    /\ MatrixIdle
    /\ ValidationIdle
    /\ SolutionIdle

NextObjective == ObjNext

SpecObjective == InitObjective /\ [][NextObjective]_vars

\* A composite recreate run once per generation of the refinement loop.
InitRecreate ==
    /\ RecreateInit
    /\ PopIdle
    /\ CvIdle
    /\ RouteIdle
    /\ ObjIdle
    /\ SolomonIdle
    /\ CliIdle
    /\ MatrixIdle
    /\ ValidationIdle
    /\ SolutionIdle

NextRecreate == RecreateNext

SpecRecreate == InitRecreate /\ [][NextRecreate]_vars

\* The Solomon writer called once on a solution.
InitSolomon ==
    /\ SolomonInit
    /\ PopIdle
    /\ CvIdle
    /\ RouteIdle
    /\ ObjIdle
    /\ RecreateIdle
    /\ CliIdle
    /\ MatrixIdle
    /\ ValidationIdle
    /\ SolutionIdle

NextSolomon == SolomonNext

SpecSolomon == InitSolomon /\ [][NextSolomon]_vars

\* One run of the command line interface.
InitCli ==
    /\ CliInit
    /\ PopIdle
    /\ CvIdle
    /\ RouteIdle
    /\ ObjIdle
    /\ RecreateIdle
    /\ SolomonIdle
    /\ MatrixIdle
    /\ ValidationIdle
    /\ SolutionIdle

NextCli == CliNext

SpecCli == InitCli /\ [][NextCli]_vars

\* The routing matrices of a problem turned into a transport cost.
InitMatrix ==
    /\ MatrixInit
    /\ PopIdle
    /\ CvIdle
    /\ RouteIdle
    /\ ObjIdle
    /\ RecreateIdle
    /\ SolomonIdle
    /\ CliIdle
    /\ ValidationIdle
    /\ SolutionIdle

NextMatrix == MatrixNext

SpecMatrix == InitMatrix /\ [][NextMatrix]_vars

\* The vehicles of a fleet validated once.
InitValidation ==
    /\ ValidationInit
    /\ PopIdle
    /\ CvIdle
    /\ RouteIdle
    /\ ObjIdle
    /\ RecreateIdle
    /\ SolomonIdle
    /\ CliIdle
    /\ MatrixIdle
    /\ SolutionIdle

NextValidation == ValidationNext

SpecValidation == InitValidation /\ [][NextValidation]_vars

\* A finished or unfinished solution handed to accept_solution_state.
InitSolution ==
    /\ SolutionInit
    /\ PopIdle
    /\ CvIdle
    /\ RouteIdle
    /\ ObjIdle
    /\ RecreateIdle
    /\ SolomonIdle
    /\ CliIdle
    /\ MatrixIdle
    /\ ValidationIdle

NextSolution == SolutionNext

SpecSolution == InitSolution /\ [][NextSolution]_vars

====
